---- MODULE Spec2Model ----
(***************************************************************************)
(* The administrative router of the incremental-ingestion catalog module   *)
(* (router/routes.ts) over the ingestion record and mark stores it drives. *)
(*                                                                         *)
(* Every route handler is an async function: each `await` on the database  *)
(* manager is one atomic store operation, and other steps may run between  *)
(* two awaits of the same handler, and between its last await and its     *)
(* res.json.  A handler either runs through, or is suspended after its     *)
(* first await (getCurrentIngestionRecord), what it read being kept in     *)
(* `pending`, and resumed later with its next call (the write or           *)
(* listProviders); when its last call has resolved it answers at once, or  *)
(* waits in `pending` with the response and sends it in a later step.  Any *)
(* number of handlers may be suspended together: `pending` is the bag of   *)
(* them.  An awaited call may also reject: the handler then ends without a *)
(* response of its own and the error goes to the trailing errorHandler.    *)
(* `out` is what the last step did: the response a call resolved with or   *)
(* the response sent (for a step of the scheduler: the provider it         *)
(* triggered).                                                             *)
(*                                                                         *)
(* IncrementalIngestionDatabaseManager itself is not among the sources:    *)
(* its operations are modelled from the specification (sections 3 to 5).   *)
(* The router decides what a "current" record is: the start handler tests  *)
(* record.status === 'resting' on it (routes.ts:135) and answers "rest     *)
(* complete, waiting to start" when there is none (routes.ts:84), so the   *)
(* current record of a provider is its record whose cycle and rest are not *)
(* over, i.e. whose status is none of complete and error.                  *)
(***************************************************************************)
EXTENDS Integers, Sequences, FiniteSets, Bags, TLC

VARIABLES
  records,     \* the Record Store: a set of ingestion records
  marks,       \* the Mark Store: a set of marks
  nextId,      \* the next fresh record id
  now,         \* the wall clock, in milliseconds
  pending,     \* the bag of handlers suspended between two awaits
  out,         \* the response of the last step, if any
  served,      \* the number of requests accepted so far
  limit,       \* the number of requests the router is given in all
  hcIn,        \* the provider names of the records healthcheck() returned
  eventBroker  \* whether setEventBroker has given the router an event broker

vars == <<records, marks, nextId, now, pending, out, served, limit, hcIn, eventBroker>>

-----------------------------------------------------------------------------
(* Bounds *)

MaxRecords == 4
MaxMarks == 2
MaxTicks == 2
MaxRequests == 2
\* the requests of the behaviours in which two start requests race
MaxRaceRequests == 3
MaxHealthLen == 4
\* the milliseconds that may pass between two reads of the clock in a handler
MaxSkewMs == 1

\* the provider names a request may carry, and those the scheduler drives
Providers == {"foo", "bar"}
Scheduled == {"foo"}

\* the bodies a delta request may carry, and the errors publish may throw
Payloads == {"a", "b"}
PublishErrors == {[name |-> "Error", message |-> "broker unavailable"]}

\* the provider names of the records a healthcheck() result may hold
HealthNames == {"foo", "bar", "baz"}

-----------------------------------------------------------------------------
(* Time *)

DayMs == 24 * 60 * 60 * 1000
StepMs == DayMs \div 2
RestLengthMs == DayMs
RetentionMs == StepMs
NULL == 0 - 1

-----------------------------------------------------------------------------
(* Records, marks, the suspended handler, responses *)

NoRec ==
  [id |-> 0, provider |-> "", status |-> "none", next_action |-> "",
   next_action_at |-> NULL, completed_at |-> NULL, last_error |-> ""]

\* what a handler keeps of the record it read
Seen(r) == [id |-> r.id, status |-> r.status]
NoSeen == Seen(NoRec)

\* what a step has done: the response of a handler whose last awaited call has
\* resolved in it (answered: the response is sent in the same step; if not,
\* the handler is back in the event loop and sends it in a later step), or the
\* response such a handler sends at last (op "answer", of: its route)
NoOut ==
  [op |-> "none", of |-> "", provider |-> "", code |-> 0, success |-> FALSE,
   msg |-> "", action |-> "", at |-> NULL, err |-> "", list |-> <<>>,
   count |-> 0, saw |-> NoSeen, changed |-> FALSE, thrown |-> "",
   answered |-> FALSE]

\* a suspended handler with what its code uses of the record r it read: id and
\* status, and for the status handler next_action_at and last_error too.
\* todo, count: the providers cleanupProviders() has yet to handle, and the
\* records it has put to rest so far; answer: the response of a handler
\* whose last call has resolved and that has yet to send it
Handler(op, p, r) ==
  [op |-> op, provider |-> p, rec |-> Seen(r),
   at |-> IF op = "status" THEN r.next_action_at ELSE NULL,
   err |-> IF op = "status" THEN r.last_error ELSE "",
   todo |-> {}, count |-> 0, answer |-> NoOut]

\* the record a suspended handler holds
Held(h) ==
  [NoRec EXCEPT !.id = h.rec.id, !.status = h.rec.status,
                !.provider = IF h.rec = NoSeen THEN "" ELSE h.provider,
                !.next_action_at = h.at, !.last_error = h.err]

\* no handler is suspended
Nobody == EmptyBag

Statuses == {"ingesting", "resting", "canceling", "complete", "error"}
Terminal == {"complete", "error"}
Active == {"ingesting", "canceling"}

RecordsOf(p) == {r \in records : r.provider = p}
MarksOf(id) == {m \in marks : m.rec = id}

-----------------------------------------------------------------------------
(* Record Store (specification section 4.1) *)

Current(p) == {r \in RecordsOf(p) : r.status \notin Terminal}

getCurrentIngestionRecord(p) == IF Current(p) = {} THEN {NoRec} ELSE Current(p)

listProviders == {r.provider : r \in records}

UpdateFields(r, f) ==
  [r EXCEPT !.next_action = f.next_action,
            !.completed_at = f.ingestion_completed_at,
            !.next_action_at = f.next_action_at,
            !.status = f.status]

updateByName(p, f) ==
  {IF r \in Current(p) THEN UpdateFields(r, f) ELSE r : r \in records}

NonResting == {r \in records : r.status # "resting"}

RECURSIVE SortById(_)
SortById(S) ==
  IF S = {} THEN <<>>
  ELSE LET r == CHOOSE x \in S : \A y \in S : x.id <= y.id
       IN <<r>> \o SortById(S \ {r})

healthcheck == SortById(NonResting)

setProviderComplete(id) ==
  {IF r.id = id THEN [r EXCEPT !.status = "complete", !.next_action = "nothing (done)"]
   ELSE r : r \in records}

setProviderCanceling(id) ==
  {IF r.id = id THEN [r EXCEPT !.status = "canceling"] ELSE r : r \in records}

-----------------------------------------------------------------------------
(* State Machine Controller (specification section 4.3) *)

NewIngestion(p) ==
  [id |-> nextId, provider |-> p, status |-> "ingesting",
   next_action |-> "ingest next page", next_action_at |-> now,
   completed_at |-> NULL, last_error |-> ""]

NextSequence(id) ==
  IF MarksOf(id) = {} THEN 1
  ELSE 1 + (CHOOSE n \in {m.seq : m \in MarksOf(id)} : \A m \in MarksOf(id) : m.seq <= n)

\* next_action_at is the time before which triggering is a no-op: the
\* cooldown end written when a cycle of the provider ended has passed.
\* setProviderComplete writes no next_action_at: a resting record marked
\* complete by a start request keeps the cooldown end it had (what a start on
\* a resting provider is meant to bring about is an open question of the
\* specification, section 9)
RestOver(p) == \A r \in RecordsOf(p) : r.next_action_at <= now

\* no current record, the cooldown over: a new cycle starts
StartCycle(p) ==
  /\ Current(p) = {}
  /\ RestOver(p)
  /\ nextId <= MaxRecords
  /\ records' = records \cup {NewIngestion(p)}
  /\ nextId' = nextId + 1
  /\ marks' = marks

\* resting, next_action_at elapsed: the rest ends and a new record is created
EndRest(p, r) ==
  /\ r.status = "resting" /\ r.next_action_at <= now
  /\ nextId <= MaxRecords
  /\ records' = (records \ {r})
                  \cup {[r EXCEPT !.status = "complete"], NewIngestion(p)}
  /\ nextId' = nextId + 1
  /\ marks' = marks

\* no current record, the cooldown of the last cycle not elapsed: nothing to do
AtRest(p) ==
  /\ Current(p) = {}
  /\ ~RestOver(p)
  /\ UNCHANGED <<records, marks, nextId>>

\* resting, next_action_at not elapsed, or canceling: nothing to do
Deferred(r) ==
  /\ \/ r.status = "resting" /\ r.next_action_at > now
     \/ r.status = "canceling"
  /\ UNCHANGED <<records, marks, nextId>>

\* a fresh mark id: one more than the highest in the store
NextMarkId ==
  IF marks = {} THEN 1
  ELSE 1 + (CHOOSE n \in {m.id : m \in marks} : \A m \in marks : m.id <= n)

\* ingesting: the collaborator fetches one page and appends its mark
AppendMark(r) ==
  /\ r.status = "ingesting"
  /\ Cardinality(marks) < MaxMarks
  /\ marks' = marks \cup {[id |-> NextMarkId, rec |-> r.id, seq |-> NextSequence(r.id)]}
  /\ UNCHANGED <<records, nextId>>

\* ingesting: the collaborator has no page left
Exhausted(r) ==
  /\ r.status = "ingesting"
  /\ records' = (records \ {r})
                  \cup {[r EXCEPT !.status = "complete",
                                  !.next_action = "nothing (done)",
                                  !.completed_at = now,
                                  !.next_action_at = now + RestLengthMs]}
  /\ UNCHANGED <<marks, nextId>>

\* ingesting: the collaborator's fetch fails
Failed(r) ==
  /\ r.status = "ingesting"
  /\ records' = (records \ {r})
                  \cup {[r EXCEPT !.status = "error",
                                  !.next_action = "nothing (done)",
                                  !.completed_at = now,
                                  !.next_action_at = now + RestLengthMs,
                                  !.last_error = "fetch failed"]}
  /\ UNCHANGED <<marks, nextId>>

\* a faulty variant: a provider without current record, or with a rest that
\* is over, is left as it is
triggerWithoutNewCycle(p) ==
  \/ AtRest(p)
  \/ \E r \in Current(p) :
       \/ Deferred(r)
       \/ AppendMark(r)
       \/ Exhausted(r)
       \/ Failed(r)

triggerNextProviderAction(p) ==
  \/ StartCycle(p)
  \/ AtRest(p)
  \/ \E r \in Current(p) :
       \/ EndRest(p, r)
       \/ Deferred(r)
       \/ AppendMark(r)
       \/ Exhausted(r)
       \/ Failed(r)

\* the external scheduler invokes the controller's trigger operation
ScheduledTrigger ==
  /\ \E p \in Scheduled :
       /\ triggerNextProviderAction(p)
       /\ out' = [NoOut EXCEPT !.op = "scheduled", !.provider = p]
  /\ UNCHANGED <<now, pending, served, hcIn, eventBroker, limit>>

\* the collaborator observes `canceling` at its next checkpoint and stops
CollaboratorCheckpoint ==
  /\ \E r \in records :
       /\ r.status = "canceling"
       /\ records' = (records \ {r})
                       \cup {[r EXCEPT !.status = "resting",
                                       !.next_action = "nothing (done)",
                                       !.completed_at = now,
                                       !.next_action_at = now + RestLengthMs]}
  /\ out' = NoOut
  /\ UNCHANGED <<marks, nextId, now, pending, served, hcIn, eventBroker, limit>>

Tick ==
  /\ now < MaxTicks * StepMs
  /\ now' = now + StepMs
  /\ out' = NoOut
  /\ UNCHANGED <<records, marks, nextId, pending, served, hcIn, eventBroker, limit>>

-----------------------------------------------------------------------------
(* Cleanup/Purge Service (specification section 4.5) *)

purgeAndResetProvider(p) ==
  /\ nextId <= MaxRecords
  /\ records' = (records \ RecordsOf(p))
                  \cup {[id |-> nextId, provider |-> p, status |-> "resting",
                         next_action |-> "nothing (done)",
                         next_action_at |-> now + DayMs,
                         completed_at |-> NULL, last_error |-> ""]}
  /\ marks' = {m \in marks : \A r \in RecordsOf(p) : m.rec # r.id}
  /\ nextId' = nextId + 1

-----------------------------------------------------------------------------
(* Requests: arrival, the first await, suspension *)

Accept == served < limit /\ served' = served + 1

\* a handler whose last awaited call has resolved with the response o to send
Waiting(o) == [Handler("answer", o.provider, NoRec) EXCEPT !.answer = o]

\* the awaited call of this step has resolved and o is what the handler
\* answers: at once, or after other steps
Reply(o) == \E a \in BOOLEAN : out' = [o EXCEPT !.answered = a]

\* the handlers suspended after this step, rest being the others: the one of
\* this step joins them unless it has answered
Settle(rest) ==
  \/ out'.answered /\ pending' = rest
  \/ ~out'.answered /\ pending' = rest (+) SetToBag({Waiting(out')})

\* the handler runs through: nothing happens between its awaited calls
Through == Accept /\ Settle(pending)

\* the handler is suspended after `await getCurrentIngestionRecord(provider)`
Suspend(op, p, r) ==
  /\ Accept
  /\ pending' = pending (+) SetToBag({Handler(op, p, r)})
  /\ out' = NoOut
  /\ UNCHANGED <<records, marks, nextId, now, hcIn, eventBroker, limit>>

Suspended(op) == {h \in BagToSet(pending) : h.op = op}

\* a suspended handler goes on
Resume(h) == served' = served /\ Settle(pending (-) SetToBag({h}))

\* what a handler sends after all: the response its last call resolved with
Sent(o) == [o EXCEPT !.op = "answer", !.of = o.op, !.answered = TRUE]

\* res.json(...) of a handler whose last awaited call resolved in an earlier
\* step
Respond ==
  /\ \E h \in Suspended("answer") :
       /\ pending' = pending (-) SetToBag({h})
       /\ out' = Sent(h.answer)
  /\ UNCHANGED <<records, marks, nextId, now, served, hcIn, eventBroker, limit>>

NotFound(p) == "Provider '" \o p \o "' not found"

-----------------------------------------------------------------------------
(* GET /health *)

IndexOf(a, e) == CHOOSE i \in 1..Len(a) : a[i] = e /\ \A j \in 1..(i - 1) : a[j] # e

RECURSIVE FilterRepeats(_, _)
FilterRepeats(a, i) ==
  IF i > Len(a) THEN <<>>
  ELSE (IF IndexOf(a, a[i]) # i THEN <<a[i]>> ELSE <<>>) \o FilterRepeats(a, i + 1)

RECURSIVE Uniq(_)
Uniq(s) ==
  IF s = <<>> THEN <<>>
  ELSE LET init == Uniq(SubSeq(s, 1, Len(s) - 1))
           last == s[Len(s)]
       IN IF \E i \in 1..Len(init) : init[i] = last THEN init ELSE Append(init, last)

\* a faulty variant: the repeats are not passed through `new Set`
DuplicatesNotUnique(providers) == FilterRepeats(providers, 1)

Duplicates(providers) == Uniq(FilterRepeats(providers, 1))

HealthResponse(providers) ==
  LET duplicates == Duplicates(providers)
  IN IF Len(duplicates) > 0
     THEN [NoOut EXCEPT !.op = "health", !.code = 200, !.success = FALSE, !.list = duplicates]
     ELSE [NoOut EXCEPT !.op = "health", !.code = 200, !.success = TRUE]

ProviderNames(recs) == [i \in 1..Len(recs) |-> recs[i].provider]

\* a faulty variant: the records of a provider reported as duplicate are
\* deleted
GetHealthResolving ==
  /\ Reply(HealthResponse(ProviderNames(healthcheck)))
  /\ Through
  /\ records' = {r \in records :
                   \A i \in 1..Len(out'.list) : r.provider # out'.list[i]}
  /\ UNCHANGED <<marks, nextId, now, hcIn, eventBroker, limit>>

GetHealth ==
  /\ Reply(HealthResponse(ProviderNames(healthcheck)))
  /\ Through
  /\ UNCHANGED <<records, marks, nextId, now, hcIn, eventBroker, limit>>

-----------------------------------------------------------------------------
(* The else branch of a handler: no current record *)

\* a faulty variant: listProviders() is not consulted
NoRecordResponseAlwaysFound(op, p, providers, restarting) ==
  [NoOut EXCEPT !.op = op, !.provider = p, !.code = 200, !.success = TRUE,
                !.msg = restarting]

\* a faulty variant: every provider without a current record is unknown
NoRecordResponseNeverFound(op, p, providers, restarting) ==
  [NoOut EXCEPT !.op = op, !.provider = p, !.code = 404, !.success = FALSE,
                !.msg = NotFound(p)]

NoRecordResponse(op, p, providers, restarting) ==
  IF p \in providers
  THEN [NoOut EXCEPT !.op = op, !.provider = p, !.code = 200, !.success = TRUE,
                     !.msg = restarting]
  ELSE [NoOut EXCEPT !.op = op, !.provider = p, !.code = 404, !.success = FALSE,
                     !.msg = NotFound(p)]

-----------------------------------------------------------------------------
(* GET /{provider} *)

\* a faulty variant: an unknown provider is answered like a known one
StatusResponseNo404(p, record, providers) ==
  IF record # NoRec
  THEN [NoOut EXCEPT !.op = "status", !.provider = p, !.code = 200, !.success = TRUE,
                     !.action = record.status, !.at = record.next_action_at,
                     !.err = record.last_error, !.saw = Seen(record)]
  ELSE [NoOut EXCEPT !.op = "status", !.provider = p, !.code = 200, !.success = TRUE,
                     !.action = "rest complete, waiting to start"]

StatusResponse(p, record, providers) ==
  IF record # NoRec
  THEN [NoOut EXCEPT !.op = "status", !.provider = p, !.code = 200, !.success = TRUE,
                     !.action = record.status, !.at = record.next_action_at,
                     !.err = record.last_error, !.saw = Seen(record)]
  ELSE IF p \in providers
  THEN [NoOut EXCEPT !.op = "status", !.provider = p, !.code = 200, !.success = TRUE,
                     !.action = "rest complete, waiting to start"]
  ELSE [NoOut EXCEPT !.op = "status", !.provider = p, !.code = 404, !.success = FALSE,
                     !.err = NotFound(p)]

GetProvider ==
  \/ \E p \in Providers : \E r \in getCurrentIngestionRecord(p) :
       /\ IF r # NoRec THEN out' = [StatusResponse(p, r, listProviders)
                                      EXCEPT !.answered = TRUE]
          ELSE Reply(StatusResponse(p, r, listProviders))
       /\ Through
       /\ UNCHANGED <<records, marks, nextId, now, hcIn, eventBroker, limit>>
  \/ \E p \in Providers : \E r \in getCurrentIngestionRecord(p) : Suspend("status", p, r)
  \/ \E h \in Suspended("status") :
       /\ IF h.rec # NoSeen THEN out' = [StatusResponse(h.provider, Held(h), listProviders)
                                          EXCEPT !.answered = TRUE]
          ELSE Reply(StatusResponse(h.provider, Held(h), listProviders))
       /\ Resume(h)
       /\ UNCHANGED <<records, marks, nextId, now, hcIn, eventBroker, limit>>

-----------------------------------------------------------------------------
(* POST /{provider}/trigger *)

TriggerResponse(p, seen) ==
  [NoOut EXCEPT !.op = "trigger", !.provider = p, !.code = 200, !.success = TRUE,
                !.msg = p \o ": Next action triggered.", !.saw = seen]

TriggerRest(p, seen) ==
  IF seen # NoSeen
  THEN /\ triggerNextProviderAction(p)
       /\ Reply([TriggerResponse(p, seen)
                    EXCEPT !.changed = (records' # records \/ marks' # marks)])
  ELSE /\ Reply(NoRecordResponse("trigger", p, listProviders,
                    "Unable to trigger next action (provider is restarting)"))
       /\ UNCHANGED <<records, marks, nextId>>

PostTrigger ==
  \/ \E p \in Providers : \E r \in getCurrentIngestionRecord(p) :
       TriggerRest(p, Seen(r)) /\ Through /\ UNCHANGED <<now, hcIn, eventBroker, limit>>
  \/ \E p \in Providers : \E r \in getCurrentIngestionRecord(p) : Suspend("trigger", p, r)
  \/ \E h \in Suspended("trigger") :
       TriggerRest(h.provider, h.rec) /\ Resume(h) /\ UNCHANGED <<now, hcIn, eventBroker, limit>>

-----------------------------------------------------------------------------
(* POST /{provider}/start *)

\* a faulty variant: the two branches of the start handler exchanged
StartWriteExchanged(seen) ==
  IF seen.status = "resting"
  THEN setProviderCanceling(seen.id)
  ELSE setProviderComplete(seen.id)

StartWrite(seen) ==
  IF seen.status = "resting"
  THEN setProviderComplete(seen.id)
  ELSE setProviderCanceling(seen.id)

StartResponse(p, seen) ==
  [NoOut EXCEPT !.op = "start", !.provider = p, !.code = 200, !.success = TRUE,
                !.msg = p \o ": Next cycle triggered.", !.saw = seen]

StartRest(p, seen) ==
  /\ IF seen # NoSeen
     THEN /\ records' = StartWrite(seen)
          /\ Reply([StartResponse(p, seen) EXCEPT !.changed = (records' # records)])
     ELSE /\ Reply(NoRecordResponse("start", p, listProviders,
                       "Provider is already restarting"))
          /\ records' = records
  /\ UNCHANGED <<marks, nextId>>

PostStart ==
  \/ \E p \in Providers : \E r \in getCurrentIngestionRecord(p) :
       StartRest(p, Seen(r)) /\ Through /\ UNCHANGED <<now, hcIn, eventBroker, limit>>
  \/ \E p \in Providers : \E r \in getCurrentIngestionRecord(p) : Suspend("start", p, r)
  \/ \E h \in Suspended("start") :
       StartRest(h.provider, h.rec) /\ Resume(h) /\ UNCHANGED <<now, hcIn, eventBroker, limit>>

-----------------------------------------------------------------------------
(* POST /{provider}/cancel *)

\* a faulty variant: no cooldown is added to next_action_at
CancelFieldsNoCooldown(t1, t2) ==
  [next_action |-> "nothing (done)",
   ingestion_completed_at |-> t2,
   next_action_at |-> t1,
   status |-> "resting"]

\* t1, t2: the clock as `new Date()` reads it at line 166 and at line 170
CancelFields(t1, t2) ==
  [next_action |-> "nothing (done)",
   ingestion_completed_at |-> t2,
   next_action_at |-> t1 + 24 * 60 * 60 * 1000,
   status |-> "resting"]

CancelResponse(p, seen) ==
  [NoOut EXCEPT !.op = "cancel", !.provider = p, !.code = 200, !.success = TRUE,
                !.msg = p \o ": Current ingestion canceled.", !.saw = seen]

CancelRest(p, seen) ==
  /\ IF seen # NoSeen
     THEN \E t2 \in now..(now + MaxSkewMs) :
            /\ records' = updateByName(p, CancelFields(now, t2))
            /\ now' = t2
            /\ Reply([CancelResponse(p, seen) EXCEPT !.changed = (records' # records)])
     ELSE /\ Reply(NoRecordResponse("cancel", p, listProviders,
                       "Provider is currently restarting, please wait."))
          /\ records' = records
          /\ now' = now
  /\ UNCHANGED <<marks, nextId>>

PostCancel ==
  \/ \E p \in Providers : \E r \in getCurrentIngestionRecord(p) :
       CancelRest(p, Seen(r)) /\ Through /\ UNCHANGED <<hcIn, eventBroker, limit>>
  \/ \E p \in Providers : \E r \in getCurrentIngestionRecord(p) : Suspend("cancel", p, r)
  \/ \E h \in Suspended("cancel") :
       CancelRest(h.provider, h.rec) /\ Resume(h) /\ UNCHANGED <<hcIn, eventBroker, limit>>

-----------------------------------------------------------------------------
(* DELETE /{provider} *)

PurgeResponse(p, deleted, deletedMarks) ==
  [NoOut EXCEPT !.op = "purge", !.provider = p, !.code = 200, !.success = TRUE,
                !.count = deleted, !.list = <<deletedMarks>>]

\* a record without its opaque id
Anon(r) == [r EXCEPT !.id = 0]

\* a faulty variant: the purge leaves the marks of the deleted records behind
DeleteProviderKeepingMarks ==
  /\ \E p \in Providers :
       /\ nextId <= MaxRecords
       /\ records' = (records \ RecordsOf(p))
                       \cup {[id |-> nextId, provider |-> p, status |-> "resting",
                              next_action |-> "nothing (done)",
                              next_action_at |-> now + DayMs,
                              completed_at |-> NULL, last_error |-> ""]}
       /\ marks' = marks
       /\ nextId' = nextId + 1
       /\ Reply([PurgeResponse(p, Cardinality(RecordsOf(p)), 0)
                    EXCEPT !.changed = ({Anon(r) : r \in records'} # {Anon(r) : r \in records})])
  /\ Through
  /\ UNCHANGED <<now, hcIn, eventBroker, limit>>

DeleteProvider ==
  /\ \E p \in Providers :
       /\ purgeAndResetProvider(p)
       /\ Reply([PurgeResponse(p, Cardinality(RecordsOf(p)), Cardinality(marks \ marks'))
                    EXCEPT !.changed = \/ {Anon(r) : r \in records'} # {Anon(r) : r \in records}
                                       \/ marks' # marks])
  /\ Through
  /\ UNCHANGED <<now, hcIn, eventBroker, limit>>

-----------------------------------------------------------------------------
(* GET /{provider}/marks *)

RECURSIVE SortBySequence(_)
SortBySequence(S) ==
  IF S = {} THEN <<>>
  ELSE LET m == CHOOSE x \in S : \A y \in S : x.seq <= y.seq
       IN <<m.seq>> \o SortBySequence(S \ {m})

getAllMarks(id) == SortBySequence(MarksOf(id))

Reverse(q) == [i \in 1..Len(q) |-> q[Len(q) + 1 - i]]

\* a faulty variant: the marks are answered latest first
MarksResponseLatestFirst(p, seen, list, providers) ==
  IF seen # NoSeen
  THEN [NoOut EXCEPT !.op = "marks", !.provider = p, !.code = 200, !.success = TRUE,
                     !.list = Reverse(list), !.saw = seen]
  ELSE IF p \in providers
  THEN [NoOut EXCEPT !.op = "marks", !.provider = p, !.code = 200, !.success = TRUE,
                     !.msg = "No records yet (provider is restarting)"]
  ELSE [NoOut EXCEPT !.op = "marks", !.provider = p, !.code = 404, !.success = FALSE,
                     !.err = NotFound(p)]

MarksResponse(p, seen, list, providers) ==
  IF seen # NoSeen
  THEN [NoOut EXCEPT !.op = "marks", !.provider = p, !.code = 200, !.success = TRUE,
                     !.list = list, !.saw = seen]
  ELSE IF p \in providers
  THEN [NoOut EXCEPT !.op = "marks", !.provider = p, !.code = 200, !.success = TRUE,
                     !.msg = "No records yet (provider is restarting)"]
  ELSE [NoOut EXCEPT !.op = "marks", !.provider = p, !.code = 404, !.success = FALSE,
                     !.err = NotFound(p)]

MarksRest(p, seen) ==
  /\ Reply(MarksResponse(p, seen, getAllMarks(seen.id), listProviders))
  /\ UNCHANGED <<records, marks, nextId>>

GetMarks ==
  \/ \E p \in Providers : \E r \in getCurrentIngestionRecord(p) :
       MarksRest(p, Seen(r)) /\ Through /\ UNCHANGED <<now, hcIn, eventBroker, limit>>
  \/ \E p \in Providers : \E r \in getCurrentIngestionRecord(p) : Suspend("marks", p, r)
  \/ \E h \in Suspended("marks") :
       MarksRest(h.provider, h.rec) /\ Resume(h) /\ UNCHANGED <<now, hcIn, eventBroker, limit>>

-----------------------------------------------------------------------------
(* DELETE /{provider}/marks *)

\* a record whose cycle is over for longer than the retention threshold
Expired(r) ==
  /\ r.status \in Terminal
  /\ r.completed_at # NULL
  /\ r.completed_at + RetentionMs <= now

FinishedMarks(p) ==
  {m \in marks : \E r \in RecordsOf(p) : m.rec = r.id /\ Expired(r)}

clearFinishedIngestions(p) == marks \ FinishedMarks(p)

ClearResponse(p, deletions) ==
  [NoOut EXCEPT !.op = "clear", !.provider = p, !.code = 200, !.success = TRUE,
                !.msg = "Expired marks for provider '" \o p \o "' removed.",
                !.count = deletions]

\* a faulty variant: the marks of all the provider's records are deleted
DeleteMarksOfAll ==
  /\ \E p \in Providers :
       /\ marks' = {m \in marks : \A r \in RecordsOf(p) : m.rec # r.id}
       /\ Reply(ClearResponse(p, Cardinality(marks \ marks')))
  /\ Through
  /\ UNCHANGED <<records, nextId, now, hcIn, eventBroker, limit>>

DeleteMarks ==
  /\ \E p \in Providers :
       /\ marks' = clearFinishedIngestions(p)
       /\ Reply(ClearResponse(p, Cardinality(marks \ marks')))
  /\ Through
  /\ UNCHANGED <<records, nextId, now, hcIn, eventBroker, limit>>

-----------------------------------------------------------------------------
(* POST /cleanup *)

\* the records with every active record of the providers in P put to rest
RestAll(P) ==
  {IF r.provider \in P /\ r.status \in Active
   THEN UpdateFields(r, CancelFields(now, now)) ELSE r : r \in records}

ActiveIn(P) == {r \in records : r.provider \in P /\ r.status \in Active}

CleanupResponse(result) ==
  [NoOut EXCEPT !.op = "cleanup", !.code = 200, !.success = TRUE, !.count = result]

\* cleanupProviders() handles one provider per transaction: all of them with
\* nothing in between, or one, then (after other steps) the others
PostCleanup ==
  \/ /\ records' = RestAll(listProviders)
     /\ Reply(CleanupResponse(Cardinality(ActiveIn(listProviders))))
     /\ Through
     /\ UNCHANGED <<marks, nextId, now, hcIn, eventBroker, limit>>
  \/ /\ Accept
     /\ \E p \in listProviders :
          /\ listProviders # {p}
          /\ records' = RestAll({p})
          /\ pending' = pending (+) SetToBag({
               [Handler("cleanup", p, NoRec)
                  EXCEPT !.todo = listProviders \ {p},
                         !.count = Cardinality(ActiveIn({p}))]})
     /\ out' = NoOut
     /\ UNCHANGED <<marks, nextId, now, hcIn, eventBroker, limit>>
  \/ \E h \in Suspended("cleanup") :
       /\ records' = RestAll(h.todo)
       /\ Reply(CleanupResponse(h.count + Cardinality(ActiveIn(h.todo))))
       /\ Resume(h)
       /\ UNCHANGED <<marks, nextId, now, hcIn, eventBroker, limit>>

-----------------------------------------------------------------------------
(* POST /{provider}/delta, setEventBroker *)

setEventBroker ==
  /\ eventBroker' = TRUE
  /\ out' = NoOut
  /\ UNCHANGED <<records, marks, nextId, now, pending, served, hcIn, limit>>

stringifyError(e) == e.name \o ": " \o e.message

\* the 500 is sent, then the error is thrown: it goes to the trailing
\* errorHandler, and what that does for a request already answered is told
\* neither by the sources nor by the specification; `thrown` records the error
DeltaNoBroker(p) ==
  [NoOut EXCEPT !.op = "delta", !.provider = p, !.code = 500, !.success = FALSE,
                !.msg = "The payload could not be processed!",
                !.thrown = "Event broker not initialized!", !.answered = TRUE]

DeltaSubmitted(p, eventPayload) ==
  [NoOut EXCEPT !.op = "delta", !.provider = p, !.code = 200, !.success = TRUE,
                !.msg = "Payload submitted.",
                !.list = <<[topic |-> p \o "-push", eventPayload |-> eventPayload]>>]

DeltaFailed(p, e) ==
  [NoOut EXCEPT !.op = "delta", !.provider = p, !.code = 500, !.success = FALSE,
                !.msg = "There was an error submitting the payload: "
                          \o stringifyError(e)]

\* a faulty variant: the payload is published without looking at the broker
PostDeltaUnchecked ==
  /\ \E p \in Providers : \E eventPayload \in Payloads :
       Reply(DeltaSubmitted(p, eventPayload))
  /\ Through
  /\ UNCHANGED <<records, marks, nextId, now, hcIn, eventBroker, limit>>

PostDelta ==
  /\ \E p \in Providers : \E eventPayload \in Payloads :
       IF ~eventBroker
       THEN out' = DeltaNoBroker(p)
       ELSE \/ Reply(DeltaSubmitted(p, eventPayload))
            \/ \E e \in PublishErrors : Reply(DeltaFailed(p, e))
  /\ Through
  /\ UNCHANGED <<records, marks, nextId, now, hcIn, eventBroker, limit>>

-----------------------------------------------------------------------------
(* A manager call that rejects (specification sections 6 and 7) *)

\* the errors a call of the database manager may reject with
StoreErrors == {[name |-> "TransientStoreError", message |-> "store unavailable"]}

\* the answer to a request whose handler has thrown before answering: an
\* unexpected store failure is answered 500 with {success:false, message}
errorHandler(e) ==
  [NoOut EXCEPT !.op = "failed", !.code = 500, !.success = FALSE,
                !.msg = e.message, !.thrown = e.message, !.answered = TRUE]

\* an awaited call of the manager rejects, the first of a handler or the one
\* a suspended handler goes on with: the call has written nothing, the
\* handler sends no body, and the error is passed on to errorHandler
StoreFailure ==
  /\ \E e \in StoreErrors : out' = errorHandler(e)
  /\ \/ Through
     \/ \E h \in BagToSet(pending) : h.op # "answer" /\ Resume(h)
  /\ UNCHANGED <<records, marks, nextId, now, hcIn, eventBroker, limit>>

-----------------------------------------------------------------------------
\* the router over an empty store, given n requests
Empty(n) ==
  /\ records = {}
  /\ marks = {}
  /\ nextId = 1
  /\ now = 0
  /\ pending = Nobody
  /\ out = NoOut
  /\ served = 0
  /\ limit = n
  /\ hcIn = <<>>
  /\ eventBroker = FALSE

Init == Empty(MaxRequests)

Next ==
  \/ GetHealth
  \/ GetProvider
  \/ PostTrigger
  \/ PostStart
  \/ PostCancel
  \/ DeleteProvider
  \/ GetMarks
  \/ DeleteMarks
  \/ PostCleanup
  \/ PostDelta
  \/ Respond
  \/ StoreFailure
  \/ setEventBroker
  \/ ScheduledTrigger
  \/ CollaboratorCheckpoint
  \/ Tick

Spec == Init /\ [][Next]_vars

\* the requests that write to the stores, next to the stores' other callers.
\* The steps left out (health, status, marks, delta, setEventBroker, a call
\* that rejects) write to no record and no mark.
NextStore ==
  \/ PostTrigger
  \/ PostStart
  \/ PostCancel
  \/ DeleteProvider
  \/ DeleteMarks
  \/ PostCleanup
  \/ Respond
  \/ ScheduledTrigger
  \/ CollaboratorCheckpoint
  \/ Tick

SpecStore == Init /\ [][NextStore]_vars

\* the same with the requests that read the stores, and with calls that reject
NextReads ==
  \/ GetHealth
  \/ GetProvider
  \/ GetMarks
  \/ PostTrigger
  \/ PostStart
  \/ PostCancel
  \/ DeleteProvider
  \/ DeleteMarks
  \/ PostCleanup
  \/ Respond
  \/ StoreFailure
  \/ ScheduledTrigger
  \/ CollaboratorCheckpoint
  \/ Tick

SpecReads == Init /\ [][NextReads]_vars

\* the delta requests and setEventBroker, next to the scheduler and the clock
NextDelta ==
  \/ PostDelta
  \/ setEventBroker
  \/ Respond
  \/ ScheduledTrigger
  \/ Tick

SpecDelta == Init /\ [][NextDelta]_vars

\* the scheduler goes on triggering, the collaborator reaches its checkpoints,
\* and time passes
SpecScheduled ==
  SpecStore /\ WF_vars(ScheduledTrigger) /\ WF_vars(CollaboratorCheckpoint) /\ WF_vars(Tick)

\* the start and cancel requests of up to MaxRaceRequests clients next to the
\* scheduler and the collaborator, which reaches its next checkpoint
InitRace == Empty(MaxRaceRequests)

NextRace ==
  \/ PostStart
  \/ PostCancel
  \/ Respond
  \/ ScheduledTrigger
  \/ CollaboratorCheckpoint
  \/ Tick

SpecStartRace == InitRace /\ [][NextRace]_vars /\ WF_vars(CollaboratorCheckpoint)

-----------------------------------------------------------------------------
(* GET /health over every healthcheck() result of up to MaxHealthLen records *)

RECURSIVE SeqsUpTo(_, _)
SeqsUpTo(S, n) ==
  IF n = 0 THEN {<<>>}
  ELSE LET shorter == SeqsUpTo(S, n - 1)
       IN shorter \cup {Append(q, e) : q \in {x \in shorter : Len(x) = n - 1}, e \in S}

InitHealth ==
  /\ records = {}
  /\ marks = {}
  /\ nextId = 1
  /\ now = 0
  /\ pending = Nobody
  /\ out = NoOut
  /\ served = 0
  /\ limit = MaxRequests
  /\ hcIn \in SeqsUpTo(HealthNames, MaxHealthLen)
  /\ eventBroker = FALSE

GetHealthOf ==
  /\ Reply(HealthResponse(hcIn))
  /\ Through
  /\ UNCHANGED <<records, marks, nextId, now, hcIn, eventBroker, limit>>

NextHealth == GetHealthOf \/ Respond

SpecHealth == InitHealth /\ [][NextHealth]_vars

-----------------------------------------------------------------------------
(* Properties *)

ActiveOf(p) == {r \in RecordsOf(p) : r.status \in Active}

\* the handlers a step suspends, and those it lets go on
Come == {h \in BagToSet(pending' (-) pending) : h.op # "answer"}
Gone == {h \in BagToSet(pending (-) pending') : h.op # "answer"}

\* a handler that sends its response in a later step than its last call sends
\* what that call resolved with, and changes nothing
AnswerAsResolved ==
  out'.op = "answer" =>
    /\ \E h \in Suspended("answer") :
         /\ h.answer.op = out'.of /\ ~h.answer.answered
         /\ out' = [h.answer EXCEPT !.op = "answer", !.of = h.answer.op,
                                    !.answered = TRUE]
         /\ pending' = pending (-) SetToBag({h})
    /\ UNCHANGED <<records, marks, nextId, now>>

\* C1: in every reachable state each provider has at most one record whose
\* status is not `resting`, records left `complete` or `error` by earlier
\* cycles counting as not resting.
C1_AtMostOneNonResting ==
  \A p \in Providers : Cardinality({r \in RecordsOf(p) : r.status # "resting"}) <= 1

\* a provider with two records in an active status (ingesting, canceling)
C1_TwoActive == \E p \in Providers : Cardinality(ActiveOf(p)) >= 2

\* C2: when two trigger requests for one provider both read the same record
\* state and one of them has performed the transition, the other, going on
\* after it, changes no record and no mark.
C2_SecondTriggerNoOp ==
  [][(\E h \in Gone :
        /\ h.op = "trigger" /\ h.rec # NoSeen
        /\ out.op = "trigger" /\ out.provider = h.provider
        /\ out.saw = h.rec /\ out.changed)
     => (records' = records /\ marks' = marks)]_vars

Occurrences(a, e) == Cardinality({i \in 1..Len(a) : a[i] = e})
Repeated(a) == {e \in HealthNames : Occurrences(a, e) >= 2}

\* C3: for every list of non-resting records returned by healthcheck(), GET
\* /health answers healthy:true iff no provider name occurs in two or more of
\* them; otherwise it answers healthy:false and duplicateIngestions holds
\* exactly the names that occur two or more times, each exactly once.
C3_HealthDuplicates ==
  out.op = "health" =>
    /\ out.code = 200
    /\ out.success <=> (Repeated(hcIn) = {})
    /\ ~out.success =>
         /\ {out.list[i] : i \in 1..Len(out.list)} = Repeated(hcIn)
         /\ Len(out.list) = Cardinality(Repeated(hcIn))
    /\ out.success => out.list = <<>>

\* a name occurring three times was reported, once, next to a name occurring once
C3_Witness ==
  /\ out.op = "health" /\ ~out.success /\ Len(out.list) = 1
  /\ Occurrences(hcIn, out.list[1]) = 3
  /\ \E e \in HealthNames : Occurrences(hcIn, e) = 1

\* C4: GET /{provider} answers 200 with the current record's status as
\* current_action and its next_action_at when a current record exists, 200
\* with "rest complete, waiting to start" when none exists but the provider is
\* in listProviders(), and 404 with last_error "Provider '<name>' not found"
\* exactly when none exists and the provider is not in listProviders().
C4_StatusDiscrimination ==
  [][out'.op = "status" =>
      LET p == out'.provider
      IN /\ (Gone = {}) => (out'.saw = NoSeen <=> Current(p) = {})
         /\ \/ /\ out'.saw # NoSeen
               /\ \E r \in Current(p) :
                    /\ Seen(r) = out'.saw
                    /\ out'.action = r.status /\ out'.at = r.next_action_at
                    /\ out'.err = r.last_error
               /\ out'.code = 200 /\ out'.success
            \/ /\ out'.saw = NoSeen /\ p \in listProviders
               /\ out'.code = 200 /\ out'.success
               /\ out'.action = "rest complete, waiting to start"
            \/ /\ out'.saw = NoSeen /\ p \notin listProviders
               /\ out'.code = 404 /\ ~out'.success
               /\ out'.err = "Provider '" \o p \o "' not found"
               /\ out'.action = ""
         /\ UNCHANGED <<records, marks, nextId>>]_vars

\* what GET /{provider} answers for the record its handler holds
AnswersRecord(o, r) ==
  /\ o.code = 200 /\ o.success
  /\ o.saw = Seen(r)
  /\ o.action = r.status /\ o.at = r.next_action_at /\ o.err = r.last_error

\* what GET /{provider} answers when its handler holds no record
AnswersNoRecord(o, p, providers) ==
  /\ o.saw = NoSeen
  /\ \/ /\ p \in providers
        /\ o.code = 200 /\ o.success
        /\ o.action = "rest complete, waiting to start"
     \/ /\ p \notin providers
        /\ o.code = 404 /\ ~o.success
        /\ o.err = "Provider '" \o p \o "' not found"
        /\ o.action = ""

\* C4, amended: GET /{provider} answers for what getCurrentIngestionRecord
\* returned to it: 200 with the status of the record read as current_action
\* and its next_action_at and last_error when a current record existed at the
\* read, whatever has become of that record when the answer is sent; when
\* none existed at the read, 200 with "rest complete, waiting to start" if the
\* provider is in listProviders() when the handler calls it, and 404 with
\* last_error "Provider '<name>' not found" exactly if it is not, whatever
\* has become of the provider when the answer is sent.  The request changes
\* no record and no mark.
C4_StatusAsRead ==
  [][/\ AnswerAsResolved
     /\ \A h \in Come : h.op = "status" =>
          /\ IF Current(h.provider) = {} THEN Held(h) = NoRec
             ELSE \E r \in Current(h.provider) :
                    /\ h.rec = Seen(r)
                    /\ h.at = r.next_action_at /\ h.err = r.last_error
          /\ UNCHANGED <<records, marks, nextId>>
     /\ out'.op = "status" =>
          LET p == out'.provider
          IN /\ (Gone = {}) =>
                  IF Current(p) = {} THEN AnswersNoRecord(out', p, listProviders)
                  ELSE \E r \in Current(p) : AnswersRecord(out', r)
             /\ \A h \in Gone :
                  /\ h.op = "status" /\ h.provider = p
                  /\ IF h.rec = NoSeen THEN AnswersNoRecord(out', p, listProviders)
                     ELSE AnswersRecord(out', Held(h))
             /\ UNCHANGED <<records, marks, nextId>>]_vars

\* a status request has answered `ingesting` for a record that a cancel
\* request had put to rest after the handler read it
C4_Witness ==
  /\ out.op = "status" /\ out.code = 200 /\ out.action = "ingesting"
  /\ \E r \in records : r.id = out.saw.id /\ r.status = "resting"

\* before its next_action_at has elapsed, a trigger (of a request or of the
\* scheduler) for a provider at rest leaves all records and marks unchanged
NoTriggerInCooldown ==
  LET p == out'.provider
  IN (/\ out'.op \in {"trigger", "scheduled"}
      /\ Current(p) # {}
      /\ \A r \in Current(p) : r.status = "resting" /\ r.next_action_at > now) =>
       UNCHANGED <<records, marks, nextId>>

\* C5: after a cancel request on a provider with a current record, that
\* record has status `resting`, next_action "nothing (done)",
\* ingestion_completed_at = now and next_action_at = now + 24h, for one time
\* `now` (the clock before or after the request); every trigger made before
\* the next_action_at of the provider's resting record elapses leaves all
\* records and marks unchanged.
C5_CancelCooldown ==
  [][LET p == out'.provider
         Canceled(r, t) == [r EXCEPT !.status = "resting",
                                     !.next_action = "nothing (done)",
                                     !.completed_at = t,
                                     !.next_action_at = t + 24 * 60 * 60 * 1000]
     IN /\ (out'.op = "cancel" /\ out'.saw # NoSeen) =>
             /\ out'.code = 200 /\ out'.success
             /\ \E t \in {now, now'} :
                  records' = {IF r \in Current(p) THEN Canceled(r, t) ELSE r : r \in records}
             /\ UNCHANGED <<marks, nextId>>
        /\ NoTriggerInCooldown]_vars

\* C5, amended: after a cancel request on a provider with a current record,
\* that record has status `resting`, next_action "nothing (done)",
\* ingestion_completed_at = the time of the write and next_action_at = the
\* time the handler read the clock first + 24h, which is the time of the
\* write + 24h or up to the time between the two reads earlier; every trigger
\* made before the next_action_at of the provider's resting record elapses
\* leaves all records and marks unchanged.
C5_CancelCooldownTwoReads ==
  [][LET p == out'.provider
         Canceled(r) == [r EXCEPT !.status = "resting",
                                  !.next_action = "nothing (done)",
                                  !.completed_at = now',
                                  !.next_action_at = now + 24 * 60 * 60 * 1000]
     IN /\ (out'.op = "cancel" /\ out'.saw # NoSeen) =>
             /\ out'.code = 200 /\ out'.success
             /\ records' = {IF r \in Current(p) THEN Canceled(r) ELSE r : r \in records}
             /\ now <= now' /\ now' <= now + MaxSkewMs
             /\ (Gone = {}) =>
                  \E r \in records' : /\ r.id = out'.saw.id /\ r.provider = p
                                      /\ r = Canceled(r)
             /\ UNCHANGED <<marks, nextId>>
        /\ NoTriggerInCooldown]_vars

\* a cancel request has put an ingesting record to rest, the clock having
\* advanced between the handler's two reads
C5_Witness ==
  /\ out.op = "cancel" /\ out.saw.status = "ingesting" /\ out.changed
  /\ \E r \in records :
       /\ r.id = out.saw.id /\ r.status = "resting"
       /\ r.completed_at = now /\ r.next_action_at < now + DayMs
       /\ r.next_action_at + MaxSkewMs >= now + DayMs

\* a record at rest as a cancel request leaves it
RestingFromCancel(r) ==
  /\ r.status = "resting" /\ r.next_action = "nothing (done)"
  /\ r.completed_at # NULL
  /\ r.next_action_at <= r.completed_at + DayMs
  /\ r.next_action_at + MaxSkewMs >= r.completed_at + DayMs
  /\ r.next_action_at > now

\* C6: repeated cancels do not compound: a cancel request for a provider that
\* is already resting from an earlier cancel leaves the next_action_at,
\* ingestion_completed_at and status of its record unchanged.
C6_RepeatedCancel ==
  [][(/\ out'.op = "cancel" /\ out'.saw # NoSeen
      /\ Current(out'.provider) # {}
      /\ \A r \in Current(out'.provider) : RestingFromCancel(r))
     => \A r \in Current(out'.provider) : \E r2 \in records' :
          /\ r2.id = r.id /\ r2.status = r.status
          /\ r2.next_action_at = r.next_action_at
          /\ r2.completed_at = r.completed_at]_vars

\* C7: POST /{provider}/start on a provider with a current record: if the
\* record's status is `resting` the record of that id is marked complete,
\* for every other status its status becomes `canceling`; nothing else
\* changes, and the response is success:true in both cases.
C7_StartDecision ==
  [][(out'.op = "start" /\ out'.saw # NoSeen) =>
      LET id == out'.saw.id
          want == IF out'.saw.status = "resting" THEN "complete" ELSE "canceling"
      IN /\ out'.code = 200 /\ out'.success
         /\ (Gone = {}) =>
              \E r \in Current(out'.provider) : Seen(r) = out'.saw
         /\ \A r \in records : r.id = id =>
              \E r2 \in records' :
                /\ r2.id = id /\ r2.status = want /\ r2.provider = r.provider
                /\ r2.next_action_at = r.next_action_at
                /\ r2.completed_at = r.completed_at
         /\ {r \in records' : r.id # id} = {r \in records : r.id # id}
         /\ Cardinality(records') = Cardinality(records)
         /\ UNCHANGED <<marks, nextId, now>>]_vars

\* a record read ingesting is canceling after the start request, next to a
\* complete record
C7_Witness ==
  /\ out.op = "start" /\ out.saw.status = "ingesting" /\ out.success
  /\ \E r \in records : r.id = out.saw.id /\ r.status = "canceling"
  /\ \E r \in records : r.status = "complete"

\* what follows the start request in the scenario of C8: a scheduled trigger
\* of a provider without current record creates a record `ingesting` (once
\* the cooldown of the provider's earlier cycles is over, and nothing before),
\* and a record that passes from `ingesting` to `complete` has its
\* next_action_at at the end of the cooldown
CycleAfterStart ==
  /\ (out'.op = "scheduled" /\ Current(out'.provider) = {}) =>
       IF \A r \in RecordsOf(out'.provider) : r.next_action_at <= now
       THEN /\ \E r \in records' :
                 /\ r.id = nextId /\ r.provider = out'.provider
                 /\ r.status = "ingesting"
                 /\ records' = records \cup {r}
            /\ marks' = marks
       ELSE UNCHANGED <<records, marks, nextId>>
  /\ \A r \in records : \A r2 \in records' :
       (r.id = r2.id /\ r.status = "ingesting" /\ r2.status = "complete") =>
         /\ r2.completed_at = now
         /\ r2.next_action_at = now + RestLengthMs

\* C8: starting from a provider that has no record, a start request answers
\* success:true, the next scheduled trigger then creates a record with status
\* `ingesting`, and once the collaborator has exhausted its steps that record
\* is `complete` with next_action_at set to the end of the cooldown.
C8_StartWithoutRecord ==
  [][/\ (out'.op = "start" /\ RecordsOf(out'.provider) = {}) => out'.success
     /\ CycleAfterStart]_vars

\* C8, amended: a start request for a provider without current record answers
\* success:true if the provider is known to the store by an earlier record,
\* and 404 success:false if it has no record at all; it changes nothing.  The
\* next scheduled trigger then creates a record with status `ingesting` (for
\* a provider with earlier records: the first one made when their cooldown is
\* over, those before it changing nothing), and once exhausted that record is
\* `complete` with next_action_at = now + cooldown.
C8_StartWithoutCurrentRecord ==
  [][/\ (out'.op = "start" /\ out'.saw = NoSeen) =>
          /\ (RecordsOf(out'.provider) # {}) => (out'.code = 200 /\ out'.success)
          /\ (RecordsOf(out'.provider) = {}) => (out'.code = 404 /\ ~out'.success)
          /\ UNCHANGED <<records, marks, nextId>>
     /\ CycleAfterStart]_vars

\* a provider whose only record is complete was started: success, no change
C8_Witness ==
  /\ out.op = "start" /\ out.saw = NoSeen /\ out.code = 200 /\ out.success
  /\ RecordsOf(out.provider) # {}
  /\ \A r \in RecordsOf(out.provider) :
       r.status = "complete" /\ r.next_action_at = r.completed_at + RestLengthMs

\* C9: for trigger, start, cancel and GET marks, when getCurrent(provider)
\* yields no record the request changes no record and no mark; it answers 200
\* success:true if the provider is in listProviders(), and 404 success:false
\* with "Provider '<name>' not found" otherwise.
C9_NoCurrentRecord ==
  [][out'.op \in {"trigger", "start", "cancel", "marks"} =>
      LET p == out'.provider
      IN /\ (Gone = {}) => (out'.saw = NoSeen <=> Current(p) = {})
         /\ (out'.saw = NoSeen) =>
              /\ UNCHANGED <<records, marks, nextId, now>>
              /\ IF p \in listProviders
                 THEN out'.code = 200 /\ out'.success
                 ELSE /\ out'.code = 404 /\ ~out'.success
                      /\ "Provider '" \o p \o "' not found" =
                           (IF out'.op = "marks" THEN out'.err ELSE out'.msg)]_vars

\* a cancel request for a provider that has history but no current record
C9_Witness ==
  /\ out.op = "cancel" /\ out.saw = NoSeen /\ out.code = 200
  /\ RecordsOf(out.provider) # {} /\ Current(out.provider) = {}

\* C10: purgeAndResetProvider(provider) leaves the provider resting with
\* next_action_at = now + 24h, none of its earlier records and no mark owned
\* by them; called a second time in a row it yields the same end state as
\* the first call (record ids, being fresh, apart).
C10_PurgeIdempotent ==
  [][out'.op = "purge" =>
      LET p == out'.provider
          after == {r \in records' : r.provider = p}
          ids == {r.id : r \in RecordsOf(p)}
      IN /\ Cardinality(after) = 1
         /\ \A r \in after : /\ r.status = "resting"
                              /\ r.next_action_at = now + 24 * 60 * 60 * 1000
                              /\ r.id \notin {x.id : x \in records}
         /\ {r \in records' : r.provider # p} = {r \in records : r.provider # p}
         /\ marks' = {m \in marks : m.rec \notin ids}
         /\ (out.op = "purge" /\ out.provider = p) =>
              /\ {Anon(r) : r \in records'} = {Anon(r) : r \in records}
              /\ marks' = marks]_vars

\* a purge that found the provider as a purge leaves it: one resting record
\* with the same cooldown, and the end state is the same, ids apart
C10_Witness ==
  /\ out.op = "purge" /\ ~out.changed /\ out.count = 1

StrictlyIncreasing(q) == \A i \in 1..Len(q) : \A j \in 1..Len(q) : i < j => q[i] < q[j]

\* C11: for every record, after any sequence of appends, getAll(recordId)
\* returns its marks in ascending order with strictly increasing, pairwise
\* distinct sequence numbers, and the highest sequence is the one the last
\* append assigned; GET /{provider}/marks answers them in that order.
C11_MonotonicMarks ==
  [][/\ (marks' # marks) =>
          \A id \in {m.rec : m \in marks'} :
            LET all == getAllMarks(id)'
            IN /\ StrictlyIncreasing(all)
               /\ Len(all) = Cardinality(MarksOf(id)')
               /\ {all[i] : i \in 1..Len(all)} = {m.seq : m \in MarksOf(id)'}
     /\ \A m \in marks' \ marks :
          LET all == getAllMarks(m.rec)'
          IN /\ marks' = marks \cup {m}
             /\ \A x \in MarksOf(m.rec) : x.seq < m.seq
             /\ all[Len(all)] = m.seq
     /\ (out'.op = "marks" /\ out'.saw # NoSeen) =>
          /\ StrictlyIncreasing(out'.list)
          /\ {out'.list[i] : i \in 1..Len(out'.list)}
               = {m.seq : m \in MarksOf(out'.saw.id)}
          /\ Len(out'.list) = Cardinality(MarksOf(out'.saw.id))]_vars

\* GET marks has answered the two marks of a record, in the order appended
C11_Witness ==
  /\ out.op = "marks" /\ out.list = <<1, 2>>
  /\ Cardinality(MarksOf(out.saw.id)) = 2

\* C12: clearFinished(provider) deletes only marks owned by records of that
\* provider whose status is `complete` or `error` and that are past the
\* retention threshold, never a mark of an `ingesting` or `canceling` record
\* or of another provider, and returns the number deleted; a second call with
\* nothing new to delete returns 0 and changes nothing.
C12_ClearFinished ==
  [][out'.op = "clear" =>
      LET p == out'.provider
          deleted == marks \ marks'
      IN /\ marks' \subseteq marks
         /\ \A m \in deleted : \E r \in records :
              /\ r.id = m.rec /\ r.provider = p
              /\ r.status \in {"complete", "error"}
              /\ r.completed_at + RetentionMs <= now
         /\ out'.count = Cardinality(deleted)
         /\ out'.code = 200 /\ out'.success
         /\ UNCHANGED <<records, nextId, now>>
         /\ (out.op = "clear" /\ out.provider = p) =>
              (out'.count = 0 /\ marks' = marks)]_vars

\* a mark of a finished record was deleted and the mark of the same
\* provider's ingesting record was kept
C12_Witness ==
  /\ out.op = "clear" /\ out.count = 1
  /\ \E m \in marks : \E r \in RecordsOf(out.provider) :
       m.rec = r.id /\ r.status = "ingesting"

\* the providers a step of cleanupProviders() handles
CleanedBy ==
  IF Gone # {} THEN (CHOOSE h \in Gone : TRUE).todo
  ELSE IF Come # {} THEN listProviders \ (CHOOSE h \in Come : TRUE).todo
  ELSE listProviders

\* a step of cleanupProviders(): its only one, its first or its last
CleanupStep ==
  \/ out'.op = "cleanup"
  \/ \E h \in Come : h.op = "cleanup"

\* C13: cleanupProviders() puts every active record of the providers it
\* handles into `resting`, with the field values the manual cancel writes;
\* interleaved with concurrent triggers it is applied one provider at a time,
\* and in every intermediate state and at its end each provider has at most
\* one record that is not resting.
C13_Cleanup ==
  [][/\ CleanupStep =>
          /\ records' =
               {IF r.provider \in CleanedBy /\ r.status \in {"ingesting", "canceling"}
                THEN [r EXCEPT !.status = "resting",
                               !.next_action = "nothing (done)",
                               !.completed_at = now,
                               !.next_action_at = now + 24 * 60 * 60 * 1000]
                ELSE r : r \in records}
          /\ UNCHANGED <<marks, nextId>>
     /\ (Suspended("cleanup")' # {} \/ out'.op = "cleanup") =>
          \A p \in Providers :
            Cardinality({r \in records' : r.provider = p /\ r.status # "resting"}) <= 1]_vars

\* what cleanupProviders() does to the records, the invariant apart
C13_CleanupEffect ==
  [][CleanupStep =>
      /\ \A r \in records : r.provider \in CleanedBy /\ r.status \in Active =>
           \E r2 \in records' :
             /\ r2.id = r.id /\ r2.status = "resting"
             /\ r2.completed_at = now /\ r2.next_action_at = now + DayMs
      /\ UNCHANGED <<marks, nextId>>]_vars

\* cleanupProviders() has handled one provider and not yet the other, whose
\* record is active
C13_Interleaved ==
  \E h \in Suspended("cleanup") :
    \E r \in records : r.provider \in h.todo /\ r.status \in Active

\* C14: the writes of start and cancel are conditioned on the record they
\* read: a record whose id or status differs from what the handler read
\* before its write is not modified by that write.
C14_ConditionalWrite ==
  [][(out'.op \in {"start", "cancel"} /\ out'.saw # NoSeen) =>
      \A r \in records : Seen(r) # out'.saw => r \in records']_vars

\* a start request that read its record ingesting has set it canceling after
\* the record was put to rest or completed
C14_StaleStart ==
  /\ out.op = "start" /\ out.saw.status = "ingesting"
  /\ \E r \in records :
       r.id = out.saw.id /\ r.status = "canceling" /\ r.completed_at # NULL

Canceling(id) == \E r \in records : r.id = id /\ r.status = "canceling"
Rested(id) ==
  \E r \in records : r.id = id /\ r.status = "resting" /\ r.next_action_at > now
\* a start request never moves a record to `resting`, and sets `canceling`
\* only
StartOnlyRequests ==
  [][out'.op = "start" =>
      \A r \in records : \A r2 \in records' :
        (r.id = r2.id /\ r2 # r) =>
          /\ r2.status \in {"canceling", "complete"}
          /\ (out'.saw.status # "resting" => r2.status = "canceling")
          /\ r2.next_action_at = r.next_action_at
          /\ r2.completed_at = r.completed_at]_vars

\* C15: cancellation through start is cooperative: a start request on an
\* active record only sets status `canceling` and never moves the record to
\* `resting` itself; under fairness of the collaborator's step completion,
\* every record that enters `canceling` eventually reaches `resting` with a
\* cooldown scheduled.
C15_Cooperative ==
  /\ StartOnlyRequests
  /\ \A id \in 1..MaxRecords : Canceling(id) ~> Rested(id)

Ingesting(p) == \E r \in RecordsOf(p) : r.status = "ingesting"

\* the provider is at rest and no cooldown holds a new cycle back: each of its
\* records is complete, in error or resting, with its next_action_at elapsed
\* (a provider without any record included)
CooldownOver(p) ==
  \A r \in RecordsOf(p) :
    r.status \in {"resting", "complete", "error"} /\ r.next_action_at <= now

\* the last step was a request that wrote to the provider's records
Intervened(p) ==
  out.op \in {"start", "cancel", "purge"} /\ out.provider = p /\ out.changed

\* no request is in progress and none is to come
Quiet == served = limit /\ pending = Nobody

\* C16: no state is permanently terminal for a provider: from every reachable
\* state, after complete, error, cancel, cleanup or purge, once the cooldown
\* has elapsed and under fairness of the scheduler and the collaborator, the
\* provider eventually has a record `ingesting` again, or a request (start,
\* cancel, purge) has written to its records first and so begun another
\* cooldown or cancellation; nothing but a new cycle or such a request ends
\* the state, and with no request in progress or to come the provider is
\* ingesting again eventually.
C16_NotTerminal ==
  /\ \A p \in Scheduled : CooldownOver(p) ~> (Ingesting(p) \/ Intervened(p))
  /\ \A p \in Scheduled : (Quiet /\ CooldownOver(p)) ~> Ingesting(p)
  /\ [][\A p \in Scheduled :
          (CooldownOver(p) /\ ~CooldownOver(p)') => (Ingesting(p)' \/ Intervened(p)')]_vars

\* after a cycle that ended in error and the cooldown written at its end, the
\* provider is ingesting again
C16_Witness ==
  \E p \in Scheduled : \E r1 \in RecordsOf(p) : \E r2 \in RecordsOf(p) :
    /\ r1.status = "error" /\ r1.next_action_at = r1.completed_at + RestLengthMs
    /\ r2.status = "ingesting" /\ r2.id > r1.id
    /\ r1.next_action_at <= now

\* C17: GET /health, GET /{provider} and GET /{provider}/marks never change
\* a record or a mark, neither at their first await nor when they answer;
\* when the health check finds duplicate records it only reports them.
C17_ReadOnly ==
  [][(\/ out'.op \in {"health", "status", "marks"}
      \/ out'.op = "answer" /\ out'.of \in {"health", "status", "marks"}
      \/ \E h \in Come : h.op \in {"status", "marks"})
     => UNCHANGED <<records, marks, nextId, now>>]_vars

\* the health check has reported a provider that has two active records, and
\* both are in place
C17_Witness ==
  /\ out.op = "health" /\ ~out.success
  /\ \E i \in 1..Len(out.list) : Cardinality(ActiveOf(out.list[i])) >= 2

\* C18: POST /{provider}/delta never changes a record or a mark: with a
\* broker set and a successful publish it publishes the payload exactly once
\* on topic "<provider>-push" and answers success:true; with no broker set it
\* publishes nothing and answers 500; when publish fails it answers 500 with
\* the stringified error.
C18_Delta ==
  [][out'.op = "delta" =>
      /\ UNCHANGED <<records, marks, nextId, now, eventBroker, limit>>
      /\ ~eventBroker =>
           /\ out'.code = 500 /\ ~out'.success /\ out'.list = <<>>
           /\ out'.msg = "The payload could not be processed!"
      /\ eventBroker =>
           \/ /\ out'.code = 200 /\ out'.success
              /\ out'.msg = "Payload submitted."
              /\ Len(out'.list) = 1
              /\ out'.list[1].topic = out'.provider \o "-push"
              /\ out'.list[1].eventPayload \in Payloads
           \/ /\ out'.code = 500 /\ ~out'.success /\ out'.list = <<>>
              /\ \E e \in PublishErrors :
                   out'.msg = "There was an error submitting the payload: "
                                \o e.name \o ": " \o e.message]_vars

\* a payload was published while the provider's cycle was ingesting
C18_Witness ==
  /\ out.op = "delta" /\ out.success /\ Len(out.list) = 1
  /\ \E r \in RecordsOf(out.provider) : r.status = "ingesting"

====
